---- MODULE Spec2Model ----
(***************************************************************************)
(* Process supervisor of the ASD CLI                                       *)
(* (src/modules/core/proc/process-manager.mjs): daemon start with PID-file *)
(* handling, two-phase termination, the lease reaper and the readiness     *)
(* primitives.                                                             *)
(*                                                                         *)
(* Time is discrete; one tick is 50 ms, the value of every polling         *)
(* interval in constant.mjs.  A sleep(ms) resumes no earlier than ms after *)
(* it was started; in the supervisor specifications nothing bounds from    *)
(* above how long a step takes.  A call reads the clock only as a          *)
(* difference (Date.now() - startedAt), so each call carries the elapsed   *)
(* time instead of the two readings.  The specification of the readiness   *)
(* primitives is punctual: a step that is due is taken before time passes, *)
(* and a refused or accepted connection is answered at once.               *)
(*                                                                         *)
(* Only the Unix branch (isWin false) of killProcessTree is modelled.      *)
(***************************************************************************)
EXTENDS Integers, Sequences, FiniteSets, TLC

\* ---------------------------------------------------------------- bounds
NumCallers == 2
MaxSpawn == 3
\* processes listed in /proc when reapByEnv is called, init among them
NumProcs == 3
\* the clock of the readiness primitives stops here
MaxNow == 8
\* a readiness primitive is called no later than this
MaxStart == 1
\* characters in the log file before a probe starts, and appended after
MaxPre == 2
MaxAppend == 2
\* URLs and ports a readiness declaration lists at most
MaxUrls == 2
MaxPorts == 2

\* ------------------------------------------- program constants (in ticks)
STARTUP_HEALTHCHECK_DELAY_MS == 1
KILL_GENTLE_MS_DEFAULT == 2
HTTP_WAIT_TIMEOUT_MS == 4
HTTP_WAIT_INTERVAL_MS == 1
PORT_WAIT_TIMEOUT_MS == 4
PORT_WAIT_INTERVAL_MS == 1
LOG_WAIT_TIMEOUT_MS == 4
LOG_WAIT_POLL_MS == 1

\* ------------------------------------------------------------- universes
Callers == 1..NumCallers
InitPid == 1
PriorPids == {2}
Children == 3..(2 + MaxSpawn)
Pids == {InitPid} \cup PriorPids \cup Children
\* the processes of the machine reapByEnv scans
Listed == 1..NumProcs

Policies == {"never", "on-failure"}
\* time budgets of the readiness probes declared to startDaemon
ReadyBudgets == {1, 4}
MinUptimes == {3}
GentleChoices == {1, KILL_GENTLE_MS_DEFAULT}

SetMax(S) == CHOOSE x \in S : \A y \in S : y <= x
\* elapsed times are counted up to the largest value they are compared with
Cap == SetMax(MinUptimes \cup GentleChoices)

VARIABLES
  alive,        \* set of live PIDs
  ignoresTerm,  \* live PIDs whose program ignores SIGTERM
  pgid,         \* PID -> process group id
  environ,      \* PID -> entries of /proc/<pid>/environ
  spawned,      \* PIDs spawned by startDaemon for the pidFile
  pidFile,      \* the PID file: [exists, finite, pid]
  pc,           \* caller -> position in its current operation
  op,           \* caller -> operation it runs ("none", "start", "stop")
  opts,         \* caller -> options of the running call
  proc,         \* caller -> proc.pid of the child it spawned (0: none)
  uptime,       \* caller -> Date.now() - startedAt (in killProcessTree:
                \*           time since the terminate signals)
  lifetime,     \* caller -> how long its child lived (-1: has not exited)
  timer,        \* caller -> time left of its running sleep or probe budget
  kpid,         \* caller -> pid argument of killProcessTree
  sent,         \* caller -> signals sent by its running killProcessTree
  nspawn,       \* caller -> children spawned by its running top-level call
  oldPid,       \* caller -> oldPid, parsed from the PID file (0: not read,
                \*           -1: NaN)
  todo,         \* caller -> dirents of /proc its reapByEnv has yet to visit
  victims,      \* caller -> victims of its reapByEnv so far
  result,       \* caller -> what its last operation returned
  \* the readiness primitives
  now,          \* Date.now()
  endpoint,     \* what the probed host:port does with a connection now
  pre,          \* text in the log file when the probe is called
  post,         \* text appended to the log file since
  fn,           \* the primitive called
  ppc,          \* its position
  popts,        \* its options: [timeoutMs, intervalMs]
  t0,           \* waitForHTTP: t0
  deadline,     \* waitForPort, waitForLogPattern: deadline
  offset,       \* waitForLogPattern: offset
  wake,         \* when the running sleep, or the socket's timer, ends
  ret,          \* what the primitive returned: "none", "true", "false"
  \* the path resolvers
  env,          \* process.env: variable -> value
  dirs,         \* the directories on disk, as absolute paths
  pathMisconfigurationWarned,  \* the module's warning flag
  warnings,     \* how many times the misconfiguration box was printed
  resolver,     \* the resolver called last ("none": none yet)
  resolved,     \* the path it returned
  \* _waitReadiness
  readiness,    \* the declaration: [http, port: how many; log, custom: whether]
  tasks,        \* the promises pushed, in order: [kind, value]
  wpc,          \* position of the call: "idle", "waiting", "done"
  wres,         \* what it returned: "none", "true", "false", "threw"
  \* installBinary
  host,         \* the call and what it finds: [name, force, os, rawArch,
                \*   source, present, checksum, served]
  ipc,          \* position of the call
  ires,         \* what it returned
  artifact,     \* hash of the file at downloadPath ("none": no file)
  fetched,      \* downloads made
  installedBins \* binaries the install step has put in place

\* the locals of reapByEnv
reaping == <<todo, victims>>
\* locals that few steps touch
other == <<oldPid, reaping>>
\* a readiness primitive and what it probes
probe == <<now, endpoint, pre, post, fn, ppc, popts, t0, deadline, offset,
           wake, ret>>
\* a _waitReadiness call
waiting == <<readiness, tasks, wpc, wres>>
\* an installBinary call
installing == <<host, ipc, ires, artifact, fetched, installedBins>>
\* the resolvers, their environment and the disk
paths == <<env, dirs, pathMisconfigurationWarned, warnings, resolver,
           resolved>>
\* what no step of the supervisor changes: process groups, environments,
\* and the primitives, which the supervisor specifications leave out
rest == <<pgid, environ, probe, paths, waiting, installing>>
\* the frame of a running call, apart from its position and its result
frame == <<op, opts, proc, uptime, lifetime, timer, kpid, sent, nspawn, other>>
\* the files and processes of the machine
world == <<alive, ignoresTerm, rest, spawned, pidFile>>

\* the supervisor and its machine, which the primitives leave alone
sup == <<alive, ignoresTerm, pgid, environ, spawned, pidFile, pc, result,
         frame, paths, waiting, installing>>

vars == <<world, pc, result, frame>>

\* ------------------------------------------------------------- PID file
\* A PID file is described by what Number.parseInt(raw.trim(), 10) makes of
\* it: finite = FALSE stands for content that parses to NaN.
NoFile == [exists |-> FALSE, finite |-> FALSE, pid |-> 0]
Junk == [exists |-> TRUE, finite |-> FALSE, pid |-> 0]
PidContent(n) == [exists |-> TRUE, finite |-> TRUE, pid |-> n]

\* ---------------------------------------------------------------- results
NoResult ==
  [status |-> "none", pid |-> 0, alive |-> FALSE, ready |-> FALSE,
   reason |-> "", victims |-> <<>>]
StartResult(s, p, a, r) ==
  [status |-> s, pid |-> p, alive |-> a, ready |-> r, reason |-> "",
   victims |-> <<>>]
Threw(msg) ==
  [status |-> "threw", pid |-> 0, alive |-> FALSE, ready |-> FALSE,
   reason |-> msg, victims |-> <<>>]
StopResult(s, p, why) ==
  [status |-> s, pid |-> p, alive |-> FALSE, ready |-> FALSE, reason |-> why,
   victims |-> <<>>]
\* the array reapByEnv returns
ReapResult(v) ==
  [status |-> "reaped", pid |-> 0, alive |-> FALSE, ready |-> FALSE,
   reason |-> "", victims |-> v]

\* killTree resolves with no value
Resolved ==
  [status |-> "resolved", pid |-> 0, alive |-> FALSE, ready |-> FALSE,
   reason |-> "", victims |-> <<>>]

NoOpts ==
  [restartPolicy |-> "never", minUptimeMs |-> 0, budget |-> 0,
   gentleMs |-> 0, killGroup |-> FALSE, depth |-> 0, excludePids |-> {}]

\* ------------------------------------------------------------- processes
isAlive(pid) == pid \in alive

\* processes a process.kill(target, sig) reaches among the live ones in a:
\* the process target, the group -target, every process but init for -1,
\* and for 0 the group of the caller, which holds none of the daemons
Receivers(a, target) ==
  IF target > 0 THEN {p \in a : p = target}
  ELSE IF target = 0 - 1 THEN a \ {InitPid}
  ELSE {p \in a : pgid[p] = 0 - target}

\* processes that signal s ends among its receivers rc; init is not ended
\* by a signal
Killed(rc, s) ==
  (IF s = "SIGKILL" THEN rc ELSE rc \ ignoresTerm) \ {InitPid}

\* the live processes after the signals of sigs, each sent in a try/catch of
\* its own, in order; sigs is a sequence of [target, sig]
RECURSIVE AliveAfter(_, _)
AliveAfter(a, sigs) ==
  IF sigs = <<>> THEN a
  ELSE AliveAfter(a \ Killed(Receivers(a, Head(sigs).target), Head(sigs).sig),
                  Tail(sigs))

\* the log entries of the signals of sigs: what was sent, how long after
\* the call's clock started, and the processes it reached
RECURSIVE SentLog(_, _, _)
SentLog(a, sigs, t) ==
  IF sigs = <<>> THEN <<>>
  ELSE <<[target |-> Head(sigs).target, sig |-> Head(sigs).sig, after |-> t,
          to |-> Receivers(a, Head(sigs).target)]>>
       \o SentLog(a \ Killed(Receivers(a, Head(sigs).target), Head(sigs).sig),
                  Tail(sigs), t)

\* the processes of dead leave the machine
Gone(dead) ==
  /\ alive' = alive \ dead
  /\ ignoresTerm' = ignoresTerm \ dead
  /\ lifetime' = [d \in Callers |->
                    IF proc[d] \in dead THEN uptime[d] ELSE lifetime[d]]

\* caller c sends the signals of sigs
Signal(c, sigs) ==
  /\ Gone(alive \ AliveAfter(alive, sigs))
  /\ sent' = [sent EXCEPT ![c] = @ \o SentLog(alive, sigs, uptime[c])]

\* a live process exits on its own (crash or normal end)
Exit(p) ==
  /\ p \in alive
  /\ p # InitPid
  /\ Gone({p})
  /\ UNCHANGED <<rest, spawned, pidFile, pc, result, op, opts, proc, uptime,
                 timer, kpid, sent, nspawn, other>>

\* a call that measures elapsed time: a child spawned, or terminate sent
Clocked(c) == proc[c] # 0 \/ pc[c] = "k_kill"

\* one tick passes for every running call
Tick ==
  /\ \E c \in Callers : timer[c] > 0 \/ (Clocked(c) /\ uptime[c] < Cap)
  /\ timer' = [c \in Callers |-> IF timer[c] > 0 THEN timer[c] - 1 ELSE 0]
  /\ uptime' = [c \in Callers |->
                  IF Clocked(c) /\ uptime[c] < Cap THEN uptime[c] + 1
                  ELSE uptime[c]]
  /\ UNCHANGED <<world, pc, result, op, opts, proc, lifetime, kpid, sent,
                 nspawn, other>>

\* the call of caller c returns r (or rejects): its frame is gone
Return(c, r) ==
  /\ result' = [result EXCEPT ![c] = r]
  /\ pc' = [pc EXCEPT ![c] = "idle"]
  /\ op' = [op EXCEPT ![c] = "none"]
  /\ opts' = [opts EXCEPT ![c] = NoOpts]
  /\ proc' = [proc EXCEPT ![c] = 0]
  /\ uptime' = [uptime EXCEPT ![c] = 0]
  /\ lifetime' = [lifetime EXCEPT ![c] = 0 - 1]
  /\ timer' = [timer EXCEPT ![c] = 0]
  /\ kpid' = [kpid EXCEPT ![c] = 0]
  /\ sent' = [sent EXCEPT ![c] = <<>>]
  /\ nspawn' = [nspawn EXCEPT ![c] = 0]
  /\ oldPid' = [oldPid EXCEPT ![c] = 0]
  /\ todo' = [todo EXCEPT ![c] = {}]
  /\ victims' = [victims EXCEPT ![c] = <<>>]

\* the call of caller c goes on at position l, its frame as it is
Goto(c, l) ==
  /\ pc' = [pc EXCEPT ![c] = l]
  /\ UNCHANGED <<result, frame>>

\* caller c enters operation o with options oo; it still holds what its
\* previous call returned
Enter(c, o, oo, l) ==
  /\ pc[c] = "idle"
  /\ pc' = [pc EXCEPT ![c] = l]
  /\ op' = [op EXCEPT ![c] = o]
  /\ opts' = [opts EXCEPT ![c] = oo]
  /\ UNCHANGED <<result, proc, uptime, lifetime, timer, kpid, sent, nspawn, other>>

\* ------------------------------------------------------------ startDaemon
\* the `binary` option, by what the file system and PATH hold for it when it
\* is resolved: nothing given, an absolute path that exists, one that does
\* not, a name `which` finds, a name it does not find
Binaries == {"", "/abs/present", "/abs/missing", "on-path", "not-on-path"}

\* resolveBinary(binaryOrPath) # null
resolveBinary(b) ==
  IF b = "" THEN FALSE
  ELSE IF b = "/abs/present" THEN TRUE
  ELSE b = "on-path"

\* the child spawn() creates: the lowest PID not used before
FreshPid == CHOOSE p \in Children \ spawned : \A q \in Children \ spawned : p <= q

\* entry of startDaemon: options destructured, directories ensured
StartDaemon(c) ==
  /\ \E pol \in Policies, b \in ReadyBudgets, mu \in MinUptimes :
       Enter(c, "start",
             [NoOpts EXCEPT !.restartPolicy = pol, !.minUptimeMs = mu,
                            !.budget = b],
             "sd_exists")
  /\ UNCHANGED world

\* if (await pathExists(pidFile))
SD_PathExists(c) ==
  /\ pc[c] = "sd_exists"
  /\ Goto(c, IF pidFile.exists THEN "sd_read" ELSE "sd_spawn")
  /\ UNCHANGED world

\* readFile, parseInt, the liveness test and the already-running return
SD_ReadPid(c) ==
  /\ pc[c] = "sd_read"
  /\ IF ~pidFile.exists
       THEN Return(c, Threw("ENOENT"))
       ELSE IF pidFile.finite /\ pidFile.pid > 1 /\ isAlive(pidFile.pid)
         THEN Return(c, StartResult("already-running", pidFile.pid, TRUE, TRUE))
         ELSE /\ pc' = [pc EXCEPT ![c] = "sd_rm"]
              /\ oldPid' = [oldPid EXCEPT ![c] =
                               IF pidFile.finite THEN pidFile.pid ELSE 0 - 1]
              /\ UNCHANGED <<result, op, opts, proc, uptime, lifetime, timer,
                             kpid, sent, nspawn, reaping>>
  /\ UNCHANGED world

\* variant of SD_RmStale that leaves the stale file in place
SD_RmStale_Keeps(c) ==
  /\ pc[c] = "sd_rm"
  /\ Goto(c, "sd_spawn")
  /\ UNCHANGED world

\* await rm(pidFile, { force: true }) of the stale file
SD_RmStale(c) ==
  /\ pc[c] = "sd_rm"
  /\ pidFile' = NoFile
  /\ Goto(c, "sd_spawn")
  /\ UNCHANGED <<alive, ignoresTerm, rest, spawned>>

\* resolveBinary, the throw, open(logFile), spawn(detached); startedAt is
\* read just before the spawn; the block that declared oldPid is left
SD_Spawn(c) ==
  /\ pc[c] = "sd_spawn"
  /\ \E bin \in Binaries :
     IF ~resolveBinary(bin)
       THEN /\ Return(c, Threw("Binary not found"))
            /\ UNCHANGED <<alive, ignoresTerm, spawned>>
       ELSE /\ Children \ spawned # {}
            /\ LET p == FreshPid IN
                 /\ alive' = alive \cup {p}
                 /\ spawned' = spawned \cup {p}
                 /\ \E ig \in BOOLEAN :
                      ignoresTerm' = IF ig THEN ignoresTerm \cup {p} ELSE ignoresTerm
                 /\ proc' = [proc EXCEPT ![c] = p]
            /\ uptime' = [uptime EXCEPT ![c] = 0]
            /\ lifetime' = [lifetime EXCEPT ![c] = 0 - 1]
            /\ nspawn' = [nspawn EXCEPT ![c] = @ + 1]
            /\ pc' = [pc EXCEPT ![c] = "sd_write"]
            /\ oldPid' = [oldPid EXCEPT ![c] = 0]
            /\ UNCHANGED <<result, op, opts, timer, kpid, sent, reaping>>
  /\ UNCHANGED <<rest, pidFile>>

\* await writeFile(pidFile, `${proc.pid}\n`); then sleep(STARTUP_...) starts
SD_WritePid(c) ==
  /\ pc[c] = "sd_write"
  /\ pidFile' = PidContent(proc[c])
  /\ timer' = [timer EXCEPT ![c] = STARTUP_HEALTHCHECK_DELAY_MS]
  /\ pc' = [pc EXCEPT ![c] = "sd_health"]
  /\ UNCHANGED <<alive, ignoresTerm, rest, spawned, result, op, opts, proc,
                 uptime, lifetime, kpid, sent, nspawn, other>>

\* after the sleep: let alive = isAlive(proc.pid); the readiness probes
\* start with their budget
SD_Health(c) ==
  /\ pc[c] = "sd_health"
  /\ timer[c] = 0
  /\ IF ~isAlive(proc[c])
       THEN Goto(c, "sd_rmfailed")
       ELSE /\ pc' = [pc EXCEPT ![c] = "sd_ready"]
            /\ timer' = [timer EXCEPT ![c] = opts[c].budget]
            /\ UNCHANGED <<result, op, opts, proc, uptime, lifetime, kpid, sent,
                           nspawn, other>>
  /\ UNCHANGED world

\* variant of SD_RmFailed that returns failed and leaves the PID file
SD_RmFailed_Keeps(c) ==
  /\ pc[c] = "sd_rmfailed"
  /\ Return(c, StartResult("failed", proc[c], FALSE, FALSE))
  /\ UNCHANGED world

\* await rm(pidFile); return { status: "failed", pid, alive: false }
SD_RmFailed(c) ==
  /\ pc[c] = "sd_rmfailed"
  /\ pidFile' = NoFile
  /\ Return(c, StartResult("failed", proc[c], FALSE, FALSE))
  /\ UNCHANGED <<alive, ignoresTerm, rest, spawned>>

\* const diedEarly = !isAlive(proc.pid) && Date.now() - startedAt < minUptimeMs
diedEarly(c) ==
  ~isAlive(proc[c]) /\ uptime[c] < opts[c].minUptimeMs

\* variant of Retry that passes restartPolicy on as it is
Retry_SamePolicy(c) ==
  /\ pc' = [pc EXCEPT ![c] = "sd_exists"]
  /\ opts' = [opts EXCEPT ![c].depth = @ + 1]
  /\ proc' = [proc EXCEPT ![c] = 0]
  /\ uptime' = [uptime EXCEPT ![c] = 0]
  /\ lifetime' = [lifetime EXCEPT ![c] = 0 - 1]
  /\ timer' = [timer EXCEPT ![c] = 0]
  /\ oldPid' = [oldPid EXCEPT ![c] = 0]
  /\ UNCHANGED <<result, op, kpid, sent, nspawn, reaping>>

\* the recursive startDaemon({ ..., restartPolicy: "never" }), whose result
\* the outer call returns; the outer frame is not read again
Retry(c) ==
  /\ pc' = [pc EXCEPT ![c] = "sd_exists"]
  /\ opts' = [opts EXCEPT ![c].restartPolicy = "never", ![c].depth = @ + 1]
  /\ proc' = [proc EXCEPT ![c] = 0]
  /\ uptime' = [uptime EXCEPT ![c] = 0]
  /\ lifetime' = [lifetime EXCEPT ![c] = 0 - 1]
  /\ timer' = [timer EXCEPT ![c] = 0]
  /\ oldPid' = [oldPid EXCEPT ![c] = 0]
  /\ UNCHANGED <<result, op, kpid, sent, nspawn, reaping>>

\* variant of SD_Ready that ends a child that is alive and not ready, and
\* removes its PID file
SD_Ready_Kills(c) ==
  /\ pc[c] = "sd_ready"
  /\ \E r \in BOOLEAN :
       /\ ~r => timer[c] = 0
       /\ IF r
            THEN /\ Return(c, StartResult("started", proc[c], TRUE, TRUE))
                 /\ UNCHANGED world
            ELSE IF opts[c].restartPolicy = "on-failure" /\ diedEarly(c)
              THEN Retry(c) /\ UNCHANGED world
              ELSE /\ alive' = alive \ {proc[c]}
                   /\ ignoresTerm' = ignoresTerm \ {proc[c]}
                   /\ pidFile' = NoFile
                   /\ Return(c, StartResult("failed", proc[c], FALSE, FALSE))
                   /\ UNCHANGED <<rest, spawned>>

\* ok = await _waitReadiness(readiness) and what follows it.  Readiness can
\* be true at once (as it is with no probe declared); a probe that fails
\* has run to its deadline.
SD_Ready(c) ==
  /\ pc[c] = "sd_ready"
  /\ \E r \in BOOLEAN :
       /\ ~r => timer[c] = 0
       /\ IF r
            THEN Return(c, StartResult("started", proc[c], TRUE, TRUE))
            ELSE IF opts[c].restartPolicy = "on-failure" /\ diedEarly(c)
              THEN Retry(c)
              ELSE Return(c, StartResult("started", proc[c], TRUE, FALSE))
  /\ UNCHANGED world

\* -------------------------------------------------------- killProcessTree
\* what follows killProcessTree in the operation that called it
AfterKill(c) ==
  IF op[c] = "stop" THEN "st_rm"
  ELSE IF op[c] = "reap" THEN "rp_push"
  ELSE "kt_return"

\* the targets of one phase: -pid if killGroup, then pid
Targets(pid, killGroup, sig) ==
  (IF killGroup THEN <<[target |-> 0 - pid, sig |-> sig]>> ELSE <<>>)
  \o <<[target |-> pid, sig |-> sig]>>

\* variant of K_Term in which a signal that finds its target gone is not
\* caught: the error leaves killProcessTree
K_Term_Throws(c) ==
  /\ pc[c] = "k_term"
  /\ IF \E i \in 1..Len(SentLog(alive, Targets(kpid[c], opts[c].killGroup, "SIGTERM"), 0)) :
          SentLog(alive, Targets(kpid[c], opts[c].killGroup, "SIGTERM"), 0)[i].to = {}
       THEN /\ Return(c, IF op[c] = "stop"
                           THEN StopResult("not-stopped", 0, "ESRCH")
                           ELSE Threw("ESRCH"))
            /\ UNCHANGED world
       ELSE /\ Signal(c, Targets(kpid[c], opts[c].killGroup, "SIGTERM"))
            /\ timer' = [timer EXCEPT ![c] = opts[c].gentleMs]
            /\ pc' = [pc EXCEPT ![c] = "k_kill"]
            /\ UNCHANGED <<rest, spawned, pidFile, result, op, opts, proc,
                           uptime, kpid, nspawn, other>>

\* try { if (killGroup) process.kill(-pid, "SIGTERM") } catch {}
\* try { process.kill(pid, "SIGTERM") } catch {}; then sleep(gentleMs) starts
K_Term(c) ==
  /\ pc[c] = "k_term"
  /\ Signal(c, Targets(kpid[c], opts[c].killGroup, "SIGTERM"))
  /\ timer' = [timer EXCEPT ![c] = opts[c].gentleMs]
  /\ pc' = [pc EXCEPT ![c] = "k_kill"]
  /\ UNCHANGED <<rest, spawned, pidFile, result, op, opts, proc, uptime, kpid,
                 nspawn, other>>

\* variant of K_Kill that does not wait for the sleep to end
K_Kill_NoWait(c) ==
  /\ pc[c] = "k_kill"
  /\ Signal(c, Targets(kpid[c], opts[c].killGroup, "SIGKILL"))
  /\ pc' = [pc EXCEPT ![c] = AfterKill(c)]
  /\ UNCHANGED <<rest, spawned, pidFile, result, op, opts, proc, uptime, timer,
                 kpid, nspawn, other>>

\* after the sleep:
\* try { if (killGroup) process.kill(-pid, "SIGKILL") } catch {}
\* try { process.kill(pid, "SIGKILL") } catch {}
K_Kill(c) ==
  /\ pc[c] = "k_kill"
  /\ timer[c] = 0
  /\ Signal(c, Targets(kpid[c], opts[c].killGroup, "SIGKILL"))
  /\ pc' = [pc EXCEPT ![c] = AfterKill(c)]
  /\ UNCHANGED <<rest, spawned, pidFile, result, op, opts, proc, uptime, timer,
                 kpid, nspawn, other>>

\* --------------------------------------------------------------- killTree
\* pid arguments killTree is called with
KillArgs == {0} \cup Pids

\* entry of killTree(pid, { gentleMs, killGroup }), pid unchecked
KillTree(c) ==
  /\ pc[c] = "idle"
  /\ \E p \in KillArgs, kg \in BOOLEAN :
       /\ kpid' = [kpid EXCEPT ![c] = p]
       /\ opts' = [opts EXCEPT ![c] =
                     [NoOpts EXCEPT !.gentleMs = KILL_GENTLE_MS_DEFAULT,
                                    !.killGroup = kg]]
  /\ op' = [op EXCEPT ![c] = "kill"]
  /\ pc' = [pc EXCEPT ![c] = "k_term"]
  /\ UNCHANGED <<world, result, proc, uptime, lifetime, timer, sent, nspawn,
                 other>>

\* return killProcessTree(pid, opts)
KT_Return(c) ==
  /\ pc[c] = "kt_return"
  /\ Return(c, Resolved)
  /\ UNCHANGED world

\* ---------------------------------------------------------- stopByPidFile
\* entry of stopByPidFile(pidFile, { gentleMs, killGroup }), gentleMs in gs
StopByPidFile(c, gs) ==
  /\ \E g \in gs, kg \in BOOLEAN :
       Enter(c, "stop", [NoOpts EXCEPT !.gentleMs = g, !.killGroup = kg],
             "st_read")
  /\ UNCHANGED world

\* variant of ST_Read whose catch block removes a PID file it cannot use
ST_Read_Removes(c) ==
  /\ pc[c] = "st_read"
  /\ IF ~pidFile.exists
       THEN Return(c, StopResult("not-stopped", 0, "no-pidfile"))
            /\ UNCHANGED world
       ELSE IF ~pidFile.finite \/ pidFile.pid <= 1
         THEN /\ Return(c, StopResult("not-stopped", 0, "invalid pid"))
              /\ pidFile' = NoFile
              /\ UNCHANGED <<alive, ignoresTerm, rest, spawned>>
         ELSE /\ kpid' = [kpid EXCEPT ![c] = pidFile.pid]
              /\ pc' = [pc EXCEPT ![c] = "k_term"]
              /\ UNCHANGED <<result, op, opts, proc, uptime, lifetime, timer,
                             sent, nspawn, other>>
              /\ UNCHANGED world

\* readFile, parseInt, the invalid-pid throw, and the catch block
ST_Read(c) ==
  /\ pc[c] = "st_read"
  /\ IF ~pidFile.exists
       THEN Return(c, StopResult("not-stopped", 0, "no-pidfile"))
       ELSE IF ~pidFile.finite \/ pidFile.pid <= 1
         THEN Return(c, StopResult("not-stopped", 0, "invalid pid"))
         ELSE /\ kpid' = [kpid EXCEPT ![c] = pidFile.pid]
              /\ pc' = [pc EXCEPT ![c] = "k_term"]
              /\ UNCHANGED <<result, op, opts, proc, uptime, lifetime, timer,
                             sent, nspawn, other>>
  /\ UNCHANGED world

\* variant of ST_Rm that returns without removing the PID file
ST_Rm_Keeps(c) ==
  /\ pc[c] = "st_rm"
  /\ Return(c, StopResult("stopped", kpid[c], ""))
  /\ UNCHANGED world

\* await rm(pidFile, { force: true }); return { stopped: true, pid }
ST_Rm(c) ==
  /\ pc[c] = "st_rm"
  /\ pidFile' = NoFile
  /\ Return(c, StopResult("stopped", kpid[c], ""))
  /\ UNCHANGED <<alive, ignoresTerm, rest, spawned>>

\* -------------------------------------------------------------- reapByEnv
\* the lease looked for: `${key}=${value}`
Lease == "K=V"

\* environments a process can have: without the key, with the lease, with
\* the key at another value and entries the lease is only a part of
Environs ==
  {{"PATH=/bin"}, {"PATH=/bin", "K=V"}, {"K=W", "K=V2", "XK=V"}}

\* excludePids lists a reapByEnv can be given
ExcludeChoices == SUBSET (Listed \ {InitPid})

\* _procHasLease(pid, key, val): the environ of a process that is gone
\* cannot be read
_procHasLease(pid) == pid \in alive /\ Lease \in environ[pid]

\* entry of reapByEnv({ key, value, excludePids }) on Linux; every
\* killProcessTree it calls gets KILL_GENTLE_MS_DEFAULT and killGroup
ReapByEnv(c) ==
  /\ \E ex \in ExcludeChoices :
       Enter(c, "reap",
             [NoOpts EXCEPT !.gentleMs = KILL_GENTLE_MS_DEFAULT,
                            !.killGroup = TRUE, !.excludePids = ex],
             "rp_readdir")
  /\ UNCHANGED world

\* dirents = await readdir("/proc"): a directory for every live process
RP_Readdir(c) ==
  /\ pc[c] = "rp_readdir"
  /\ todo' = [todo EXCEPT ![c] = alive]
  /\ pc' = [pc EXCEPT ![c] = "rp_loop"]
  /\ UNCHANGED <<world, result, op, opts, proc, uptime, lifetime, timer, kpid,
                 sent, nspawn, oldPid, victims>>

\* one round of the loop up to the call of killProcessTree: the dirents
\* come in the order readdir gave them, which is any
RP_Visit(c) ==
  /\ pc[c] = "rp_loop"
  /\ \E pid \in todo[c] :
       /\ todo' = [todo EXCEPT ![c] = @ \ {pid}]
       /\ IF pid < 2 \/ pid \in opts[c].excludePids \/ ~_procHasLease(pid)
            THEN UNCHANGED <<pc, kpid, uptime>>
            ELSE /\ pc' = [pc EXCEPT ![c] = "k_term"]
                 /\ kpid' = [kpid EXCEPT ![c] = pid]
                 /\ uptime' = [uptime EXCEPT ![c] = 0]
  /\ UNCHANGED <<world, result, op, opts, proc, lifetime, timer, sent, nspawn,
                 oldPid, victims>>

\* victims.push({ pid, cmdline }) after killProcessTree returned
RP_Push(c) ==
  /\ pc[c] = "rp_push"
  /\ victims' = [victims EXCEPT ![c] = Append(@, kpid[c])]
  /\ pc' = [pc EXCEPT ![c] = "rp_loop"]
  /\ UNCHANGED <<world, result, op, opts, proc, uptime, lifetime, timer, kpid,
                 sent, nspawn, oldPid, todo>>

\* the loop is over: return victims
RP_Return(c) ==
  /\ pc[c] = "rp_loop"
  /\ todo[c] = {}
  /\ Return(c, ReapResult(victims[c]))
  /\ UNCHANGED world

\* --------------------------------------------------- readiness primitives
\* status codes an endpoint answers with
Codes == {200, 401, 404, 499, 500, 503}

\* what the probed endpoint does with a connection: answers with a status
\* (its port accepts), refuses the connection, or never answers at all
Endpoints ==
  {[kind |-> "status", code |-> k] : k \in Codes}
  \cup {[kind |-> "refuse", code |-> 0], [kind |-> "silent", code |-> 0]}

\* variant of okStatus that takes 500 too
okStatus_Upto500(code) == code >= 200 /\ code <= 500

okStatus(code) == code >= 200 /\ code < 500

\* the characters of the log file, and the pattern looked for: /ab/
Alphabet == {"a", "b"}
Pattern == <<"a", "b">>

RECURSIVE Texts(_)
\* the texts of at most n characters
Texts(n) ==
  IF n = 0 THEN {<<>>}
  ELSE Texts(n - 1) \cup
       {Append(t, ch) : t \in {u \in Texts(n - 1) : Len(u) = n - 1},
                        ch \in Alphabet}

\* regex.test(text)
Test(text) ==
  \E i \in 1..Len(text) :
    /\ i + Len(Pattern) - 1 <= Len(text)
    /\ SubSeq(text, i, i + Len(Pattern) - 1) = Pattern

\* text.slice(from)
Slice(text, from) == SubSeq(text, from + 1, Len(text))

\* timeoutMs and intervalMs a caller passes: the default or another
Timeouts(default) == {2, default}
Intervals(default) == {default, 2}

\* the primitive f is called with options of its choice
Call(f, to, iv) ==
  /\ ppc = "idle"
  /\ ret = "none"
  /\ fn' = f
  /\ \E t \in Timeouts(to), i \in Intervals(iv) :
       popts' = [timeoutMs |-> t, intervalMs |-> i]
  /\ ppc' = "loop"
  /\ UNCHANGED <<sup, now, endpoint, pre, post, wake, ret>>

\* const t0 = Date.now()
WaitForHTTP ==
  /\ Call("http", HTTP_WAIT_TIMEOUT_MS, HTTP_WAIT_INTERVAL_MS)
  /\ t0' = now
  /\ UNCHANGED <<deadline, offset>>

\* const deadline = Date.now() + timeoutMs
WaitForPort ==
  /\ Call("port", PORT_WAIT_TIMEOUT_MS, PORT_WAIT_INTERVAL_MS)
  /\ deadline' = now + popts'.timeoutMs
  /\ UNCHANGED <<t0, offset>>

\* const deadline = Date.now() + timeoutMs; let offset = 0
WaitForLogPattern ==
  /\ Call("log", LOG_WAIT_TIMEOUT_MS, LOG_WAIT_POLL_MS)
  /\ deadline' = now + popts'.timeoutMs
  /\ offset' = 0
  /\ UNCHANGED t0

\* the primitive returns b
Done(b) ==
  /\ ret' = (IF b THEN "true" ELSE "false")
  /\ ppc' = "done"
  /\ UNCHANGED wake

\* await sleep(intervalMs) starts
Sleep ==
  /\ ppc' = "sleep"
  /\ wake' = now + popts.intervalMs
  /\ UNCHANGED ret

\* the while condition; return false when it fails
P_While ==
  /\ ppc = "loop"
  /\ IF (IF fn = "http" THEN now - t0 < popts.timeoutMs ELSE now < deadline)
       THEN ppc' = "try" /\ UNCHANGED <<ret, wake>>
       ELSE Done(FALSE)
  /\ UNCHANGED <<sup, now, endpoint, pre, post, fn, popts, t0, deadline, offset>>

\* what a fetch makes of an endpoint that answers or refuses
Fetched ==
  IF endpoint.kind = "status" /\ okStatus(endpoint.code) THEN Done(TRUE)
  ELSE Sleep

\* res = await fetch(url): a response, an exception, or nothing yet
H_Fetch ==
  /\ fn = "http"
  /\ ppc = "try"
  /\ IF endpoint.kind = "silent"
       THEN ppc' = "pending" /\ UNCHANGED <<ret, wake>>
       ELSE Fetched
  /\ UNCHANGED <<sup, now, endpoint, pre, post, fn, popts, t0, deadline, offset>>

\* the pending fetch settles once the endpoint answers or resets
H_Settle ==
  /\ fn = "http"
  /\ ppc = "pending"
  /\ endpoint.kind # "silent"
  /\ Fetched
  /\ UNCHANGED <<sup, now, endpoint, pre, post, fn, popts, t0, deadline, offset>>

\* variant of Connected that goes on polling after a connect
Connected_Ignores == Sleep

\* what the promise around the socket resolves to on connect or error, and
\* `if (ok) return true; await sleep(intervalMs)`
Connected ==
  IF endpoint.kind = "status" THEN Done(TRUE) ELSE Sleep

\* net.createConnection and its events: connect, error, or none yet, with
\* the timer set that destroys the socket after intervalMs
T_Connect ==
  /\ fn = "port"
  /\ ppc = "try"
  /\ IF endpoint.kind = "silent"
       THEN /\ ppc' = "pending"
            /\ wake' = now + popts.intervalMs
            /\ UNCHANGED ret
       ELSE Connected
  /\ UNCHANGED <<sup, now, endpoint, pre, post, fn, popts, t0, deadline, offset>>

\* the connection attempt ends before the timer fires
T_Settle ==
  /\ fn = "port"
  /\ ppc = "pending"
  /\ now < wake
  /\ endpoint.kind # "silent"
  /\ Connected
  /\ UNCHANGED <<sup, now, endpoint, pre, post, fn, popts, t0, deadline, offset>>

\* the timer fires: socket.destroy() with no error emits neither connect nor
\* error, and nothing else resolves the promise
T_Destroy ==
  /\ fn = "port"
  /\ ppc = "pending"
  /\ now >= wake
  /\ ppc' = "orphaned"
  /\ UNCHANGED <<sup, now, endpoint, pre, post, fn, popts, t0, deadline, offset,
                 wake, ret>>

\* one poll of the log file: read it all, test the slice from offset
L_Read ==
  /\ fn = "log"
  /\ ppc = "try"
  /\ LET text == pre \o post
         slice == Slice(text, offset)
     IN /\ offset' = Len(text)
        /\ IF Test(slice) THEN Done(TRUE) ELSE Sleep
  /\ UNCHANGED <<sup, now, endpoint, pre, post, fn, popts, t0, deadline>>

\* the sleep is over
P_Wake ==
  /\ ppc = "sleep"
  /\ now >= wake
  /\ ppc' = "loop"
  /\ UNCHANGED <<sup, now, endpoint, pre, post, fn, popts, t0, deadline, offset,
                 wake, ret>>

\* the probed service comes up, goes down or stops answering
EndpointChanges ==
  /\ fn \in {"http", "port"}
  /\ ppc # "done"
  /\ endpoint' \in Endpoints \ {endpoint}
  /\ UNCHANGED <<sup, now, pre, post, fn, ppc, popts, t0, deadline, offset,
                 wake, ret>>

\* the daemon writes to its log
AppendLog ==
  /\ fn = "log"
  /\ ppc # "done"
  /\ Len(post) < MaxAppend
  /\ \E ch \in Alphabet : post' = Append(post, ch)
  /\ UNCHANGED <<sup, now, endpoint, pre, fn, ppc, popts, t0, deadline, offset,
                 wake, ret>>

\* a step of the primitive is due: it awaits nothing that is still to come
Due ==
  \/ ppc \in {"loop", "try"}
  \/ ppc = "sleep" /\ now >= wake
  \/ ppc = "pending" /\ endpoint.kind # "silent"
  \/ ppc = "pending" /\ fn = "port" /\ now >= wake

\* time passes while the primitive waits, and before it is called
TickProbe ==
  /\ ~Due
  /\ ppc # "done"
  /\ now < (IF ppc = "idle" THEN MaxStart ELSE MaxNow)
  /\ now' = now + 1
  /\ UNCHANGED <<sup, endpoint, pre, post, fn, ppc, popts, t0, deadline, offset,
                 wake, ret>>

\* --------------------------------------------------------- path resolvers
\* A path is the sequence of its segments, "/" first if it is absolute; the
\* value of an unset variable is the empty string, <<>>.
Unset == <<>>
\* a value of white space only
Blank == <<" ">>
Relative == <<"rel">>
Absolute == <<"/", "abs">>
\* a workspace path with a doubled .asd segment, and one in the layout of
\* the CI runners
Doubled == <<"/", "srv", ".asd", ".asd">>
DoubledCI == <<"/", "work", ".asd", ".asd">>
\* a sandbox directory left over in .env that is itself a .asd directory
StaleAsd == <<"/", "srv", ".asd">>

\* value.trim()
trim(v) == IF v = Blank THEN <<>> ELSE v

\* path.isAbsolute(p)
isAbsolute(p) == p # <<>> /\ p[1] = "/"

\* path.join(a, b), b a sequence of names
join(a, b) == a \o b

\* path.dirname(p) of an absolute path
dirname(p) == IF Len(p) <= 1 THEN p ELSE SubSeq(p, 1, Len(p) - 1)

\* process.cwd(), os.homedir(), os.tmpdir()
cwd == <<"/", "proj", "sub">>
homedir == <<"/", "home">>
tmpdir == <<"/", "tmp">>

\* where the file system looks for p: a relative path is taken from cwd
OnDisk(p) == IF isAbsolute(p) THEN p ELSE cwd \o p

\* existsSync(p) on the disk d
existsSync(d, p) == OnDisk(p) \in d

\* the disk d after mkdirSync(p, { recursive: true })
mkdirSync(d, p) == d \cup {SubSeq(OnDisk(p), 1, k) : k \in 1..Len(OnDisk(p))}

\* the walk of resolveProjectRoot from dir upwards, PROJECT_DIR unset and
\* no directory on the way named .asd: the first directory that holds a
\* .asd, or startDir if none does
RECURSIVE WalkUp(_, _)
WalkUp(d, dir) ==
  IF existsSync(d, join(dir, <<".asd">>)) THEN dir
  ELSE IF dirname(dir) = dir THEN cwd
  ELSE WalkUp(d, dirname(dir))

resolveProjectRoot(d) == WalkUp(d, cwd)

\* resolveAsdDir(): ASD_DIR_PATH || ASD_DIR if it exists, else the project
\* root if it holds modules, else its .asd (PROJECT_DIR unset)
resolveAsdDir(e, d) ==
  IF e.ASD_DIR # <<>> /\ existsSync(d, e.ASD_DIR) THEN e.ASD_DIR
  ELSE IF existsSync(d, join(resolveProjectRoot(d), <<"modules">>))
    THEN resolveProjectRoot(d)
    ELSE join(resolveProjectRoot(d), <<".asd">>)

\* SANDBOX_DIR || EXECUTION_DIR
SandboxOf(e) == IF e.SANDBOX_DIR # <<>> THEN e.SANDBOX_DIR ELSE e.EXECUTION_DIR

\* ASD_WORKSPACE_DIR || WORKSPACE_DIR
WorkspaceOf(e) ==
  IF e.ASD_WORKSPACE_DIR # <<>> THEN e.ASD_WORKSPACE_DIR ELSE e.WORKSPACE_DIR

\* the path resolveWorkspaceDir() returns
WorkspaceDir(e, d) ==
  IF trim(SandboxOf(e)) # <<>>
    THEN join(trim(SandboxOf(e)), <<".asd", "workspace">>)
  ELSE IF trim(WorkspaceOf(e)) # <<>>
    THEN IF ~isAbsolute(trim(WorkspaceOf(e)))
           THEN join(resolveProjectRoot(d), trim(WorkspaceOf(e)))
           ELSE trim(WorkspaceOf(e))
  ELSE LET projectRoot == resolveProjectRoot(d)
           asdDir == resolveAsdDir(e, d)
           projectAsdDir == join(projectRoot, <<".asd">>)
           hasLocalAsd == /\ existsSync(d, projectAsdDir)
                          /\ existsSync(d, join(projectAsdDir, <<"modules">>))
       IN IF hasLocalAsd THEN join(projectAsdDir, <<"workspace">>)
          ELSE IF asdDir # projectRoot /\ asdDir # projectAsdDir
            THEN join(projectRoot, <<"workspace">>)
            ELSE join(asdDir, <<"workspace">>)

\* dir.includes(".asd/.asd")
HasDoubledAsd(dir) ==
  \E i \in 1..(Len(dir) - 1) : dir[i] = ".asd" /\ dir[i + 1] = ".asd"

\* dir.includes("/work/.asd/.asd")
isGitHubAsdRepo(dir) ==
  \E i \in 1..(Len(dir) - 2) :
    dir[i] = "work" /\ dir[i + 1] = ".asd" /\ dir[i + 2] = ".asd"

\* whether resolveWorkspaceDir() prints the warning, the flag being w
Warns(e, d, w) ==
  /\ trim(SandboxOf(e)) = <<>>
  /\ ~isGitHubAsdRepo(WorkspaceDir(e, d))
  /\ ~w
  /\ HasDoubledAsd(WorkspaceDir(e, d))

\* the disk after resolveWorkspaceDir(): the directory, and with it logs,
\* network and tunnels, is made if it is not there; in the sandbox branch
\* the directory alone
WorkspaceDisk(e, d) ==
  LET dir == WorkspaceDir(e, d)
  IN IF existsSync(d, dir) THEN d
     ELSE IF trim(SandboxOf(e)) # <<>> THEN mkdirSync(d, dir)
     ELSE mkdirSync(mkdirSync(mkdirSync(mkdirSync(d, dir),
                                                  join(dir, <<"logs">>)),
                                        join(dir, <<"network">>)),
                    join(dir, <<"tunnels">>))

\* getAsdHome() on Linux: ASD_HOME, or asd under XDG_DATA_HOME ||
\* ~/.local/share (XDG_DATA_HOME unset)
getAsdHome(e) ==
  IF trim(e.ASD_HOME) # <<>> THEN trim(e.ASD_HOME)
  ELSE join(join(homedir, <<".local", "share">>), <<"asd">>)

\* getBinLocation(): ASD_BIN_LOCATION if it is one of the two, else the
\* default (no global config file)
getBinLocation(e) ==
  IF e.ASD_BIN_LOCATION \in {"workspace", "global"} THEN e.ASD_BIN_LOCATION
  ELSE "global"

\* the path resolveBinDir() returns
BinDir(e, d) ==
  IF trim(e.ASD_BIN_DIR) # <<>> THEN trim(e.ASD_BIN_DIR)
  ELSE IF getBinLocation(e) = "workspace"
    THEN join(WorkspaceDir(e, d), <<"bin">>)
    ELSE join(getAsdHome(e), <<"bin">>)

\* jsonFilePath options of resolveWorkspaceDirForLogs
JsonFilePaths == {Unset, <<"menus", "m.json">>, <<"/", "etc", "m.json">>}

\* the path resolveWorkspaceDirForLogs({ jsonFilePath }) returns
WorkspaceDirForLogs(e, d, jsonFilePath) ==
  IF trim(SandboxOf(e)) # <<>> THEN join(trim(SandboxOf(e)), <<"workspace">>)
  ELSE IF trim(e.ASD_WORKSPACE_DIR) # <<>>
    THEN IF ~isAbsolute(trim(e.ASD_WORKSPACE_DIR))
           THEN join(resolveProjectRoot(d), trim(e.ASD_WORKSPACE_DIR))
           ELSE trim(e.ASD_WORKSPACE_DIR)
  ELSE IF jsonFilePath # <<>>
    THEN join(SubSeq(jsonFilePath, 1, Len(jsonFilePath) - 1),
              <<".asd", "workspace">>)
    ELSE join(tmpdir, <<"asd-workspace-pid">>)

\* a resolver returns
Resolves(name, path) ==
  /\ resolver' = name
  /\ resolved' = path
  /\ UNCHANGED <<env, alive, ignoresTerm, pgid, environ, probe, spawned,
                 pidFile, pc, result, frame, waiting, installing>>

\* the safeguard of resolveWorkspaceDir(): the flag is set and the box is
\* printed by console.error, together
Warned ==
  IF Warns(env, dirs, pathMisconfigurationWarned)
    THEN pathMisconfigurationWarned' = TRUE /\ warnings' = warnings + 1
    ELSE UNCHANGED <<pathMisconfigurationWarned, warnings>>

\* resolveWorkspaceDir()
ResolveWorkspaceDir ==
  /\ Resolves("resolveWorkspaceDir", WorkspaceDir(env, dirs))
  /\ dirs' = WorkspaceDisk(env, dirs)
  /\ Warned

\* resolveBinDir(): an explicit ASD_BIN_DIR is returned as it is and not
\* created; the workspace bin and the global bin are created
ResolveBinDir ==
  /\ Resolves("resolveBinDir", BinDir(env, dirs))
  /\ IF trim(env.ASD_BIN_DIR) # <<>>
       THEN UNCHANGED <<dirs, pathMisconfigurationWarned, warnings>>
       ELSE IF getBinLocation(env) = "workspace"
         THEN /\ dirs' = mkdirSync(WorkspaceDisk(env, dirs), BinDir(env, dirs))
              /\ Warned
         ELSE /\ dirs' = mkdirSync(dirs, BinDir(env, dirs))
              /\ UNCHANGED <<pathMisconfigurationWarned, warnings>>

\* resolveLogPath(filename)
ResolveLogPath ==
  /\ Resolves("resolveLogPath",
              join(join(WorkspaceDir(env, dirs), <<"logs">>), <<"x.log">>))
  /\ dirs' = mkdirSync(WorkspaceDisk(env, dirs),
                       join(WorkspaceDir(env, dirs), <<"logs">>))
  /\ Warned

\* resolveWorkspaceDirForLogs(opts): it makes no directory
ResolveWorkspaceDirForLogs ==
  /\ \E j \in JsonFilePaths :
       Resolves("resolveWorkspaceDirForLogs", WorkspaceDirForLogs(env, dirs, j))
  /\ UNCHANGED <<dirs, pathMisconfigurationWarned, warnings>>

\* --------------------------------------------------------- _waitReadiness
\* the tasks _waitReadiness pushes for a declaration r: one waitForHTTP for
\* each URL, one waitForPort for each port, waitForLogPattern if log has a
\* file and a regex, and the promise of custom() if custom is a function
TasksOf(r) ==
  [i \in 1..r.http |-> [kind |-> "http", value |-> "pending"]]
  \o [i \in 1..r.port |-> [kind |-> "port", value |-> "pending"]]
  \o (IF r.log THEN <<[kind |-> "log", value |-> "pending"]>> ELSE <<>>)
  \o (IF r.custom THEN <<[kind |-> "custom", value |-> "pending"]>> ELSE <<>>)

\* what a task can settle to: a primitive resolves to a boolean; custom()
\* resolves to any value, a boolean, an object or undefined, or rejects
Outcomes(kind) ==
  IF kind = "custom" THEN {"true", "false", "object", "undefined", "rejected"}
  ELSE {"true", "false"}

\* !!value
Truthy(v) == v \in {"true", "object"}

\* results.every(Boolean) over the values of ts, all settled
every(ts) == \A i \in 1..Len(ts) : Truthy(ts[i].value)

\* what is not part of a _waitReadiness call
NotWaiting == <<alive, ignoresTerm, pgid, environ, probe, paths, spawned,
                pidFile, pc, result, frame, installing>>

\* _waitReadiness(readiness) up to the await: `if (tasks.length === 0)
\* return true`
WaitReadiness ==
  /\ wpc = "idle"
  /\ tasks' = TasksOf(readiness)
  /\ IF TasksOf(readiness) = <<>>
       THEN wpc' = "done" /\ wres' = "true"
       ELSE wpc' = "waiting" /\ wres' = "none"
  /\ UNCHANGED <<readiness, NotWaiting>>

\* one of the tasks settles
TaskSettles ==
  /\ wpc = "waiting"
  /\ \E i \in 1..Len(tasks) :
       /\ tasks[i].value = "pending"
       /\ \E v \in Outcomes(tasks[i].kind) :
            tasks' = [tasks EXCEPT ![i].value = v]
  /\ UNCHANGED <<readiness, wpc, wres, NotWaiting>>

\* variant of WR_Return that is satisfied by any one task
WR_Return_Some ==
  /\ wpc = "waiting"
  /\ \/ /\ \E i \in 1..Len(tasks) : tasks[i].value = "rejected"
        /\ wres' = "threw"
     \/ /\ \A i \in 1..Len(tasks) : tasks[i].value \notin {"pending", "rejected"}
        /\ wres' = (IF \E i \in 1..Len(tasks) : Truthy(tasks[i].value)
                      THEN "true" ELSE "false")
  /\ wpc' = "done"
  /\ UNCHANGED <<readiness, tasks, NotWaiting>>

\* await Promise.all(...) settles: it rejects once a task has rejected, and
\* resolves once all have resolved; return results.every(Boolean)
WR_Return ==
  /\ wpc = "waiting"
  /\ \/ /\ \E i \in 1..Len(tasks) : tasks[i].value = "rejected"
        /\ wres' = "threw"
     \/ /\ \A i \in 1..Len(tasks) : tasks[i].value \notin {"pending", "rejected"}
        /\ wres' = (IF every(tasks) THEN "true" ELSE "false")
  /\ wpc' = "done"
  /\ UNCHANGED <<readiness, tasks, NotWaiting>>

\* ---------------------------------------------------------- installBinary
\* the keys of BINARY_CONFIGS
Registry ==
  {"caddy", "ttyd", "gh", "mitmproxy", "dbgate", "codeserver", "tunnel",
   "busybox"}

\* a property name every object literal inherits from Object.prototype
Inherited == {"constructor"}

\* names installBinary is called with
Names == Registry \cup Inherited \cup {"nonexistent-binary-xyz"}

\* BINARY_CONFIGS[name]: an entry of the registry, a value found on the
\* prototype chain, which has none of an entry's fields, or undefined
Lookup(name) ==
  IF name \in Registry THEN "config"
  ELSE IF name \in Inherited THEN "inherited"
  ELSE "undefined"

\* detectPlatform(): os, and rawArch where a build depends on it
OSes == {"linux", "darwin", "windows"}
RawArchs == {"x86_64", "riscv64"}

\* config.buildUrl(version, os, arch, rawArch) # null; source: the
\* ext/asd-tunnel submodule with its go.mod is under the current directory
buildUrl(name, os, rawArch, source) ==
  IF name = "ttyd" THEN os # "linux" \/ rawArch = "x86_64"
  ELSE IF name = "codeserver" THEN os # "windows"
  ELSE IF name = "busybox" THEN os = "windows"
  ELSE IF name = "tunnel" THEN ~source
  ELSE TRUE

\* getExpectedPaths(name, binDir, workspaceDir, os) # []
getExpectedPaths(name, os) == ~(name = "busybox" /\ os # "windows")

\* what getBinaryChecksum finds for the binary, version and platform: no
\* entry, an entry whose hash is empty, or a hash, in either case of letters
Checksums == {"absent", "", "h1", "H1"}

\* what the URL serves: a file of one hash or another, or an error status
\* (computeFileHash returns hex digits in lower case)
Served == {"h1", "h2", "fail"}

\* String.prototype.toLowerCase
toLowerCase(h) == IF h = "H1" THEN "h1" ELSE IF h = "H2" THEN "h2" ELSE h

\* variant of verifyChecksum that accepts whatever was downloaded
verifyChecksum_Lenient(checksum, actualHash) == TRUE

\* verifyChecksum(binary, version, platform, filePath)
verifyChecksum(checksum, actualHash) ==
  IF checksum = "absent" \/ checksum = "" THEN TRUE
  ELSE toLowerCase(checksum) = toLowerCase(actualHash)

\* the object installBinary resolves with, and its rejection
InstallResult(i, s, e) ==
  [kind |-> "returned", installed |-> i, skipped |-> s, error |-> e]
Rejected ==
  [kind |-> "threw", installed |-> FALSE, skipped |-> FALSE, error |-> "TypeError"]
NotReturned ==
  [kind |-> "none", installed |-> FALSE, skipped |-> FALSE, error |-> ""]

\* the directory createTempDir makes
TempPath == join(tmpdir, <<"download">>)

\* the disk d after rmSync(p, { recursive: true, force: true })
rmSync(d, p) ==
  {q \in d : ~(Len(q) >= Len(p) /\ SubSeq(q, 1, Len(p)) = p)}

\* what is neither the disk nor part of an installBinary call
NotInstalling == <<env, alive, ignoresTerm, pgid, environ, probe, spawned,
                   pidFile, pc, result, frame, waiting>>

\* resolveBinDir() and then resolveWorkspaceDir(), as installBinary calls
\* them
ResolvesDirs ==
  LET explicit == trim(env.ASD_BIN_DIR) # <<>>
      inWorkspace == ~explicit /\ getBinLocation(env) = "workspace"
      w1 == inWorkspace /\ Warns(env, dirs, pathMisconfigurationWarned)
      d1 == IF explicit THEN dirs
            ELSE IF inWorkspace
              THEN mkdirSync(WorkspaceDisk(env, dirs), BinDir(env, dirs))
              ELSE mkdirSync(dirs, BinDir(env, dirs))
      f1 == pathMisconfigurationWarned \/ w1
      w2 == Warns(env, d1, f1)
  IN /\ dirs' = WorkspaceDisk(env, d1)
     /\ pathMisconfigurationWarned' = (f1 \/ w2)
     /\ warnings' = warnings + (IF w1 THEN 1 ELSE 0) + (IF w2 THEN 1 ELSE 0)
     /\ resolver' = "resolveWorkspaceDir"
     /\ resolved' = WorkspaceDir(env, d1)

\* installBinary(name, options) down to the version: an unknown name
\* returns at once; what the lookup finds on the prototype chain has no
\* defaultVersion, and .replace on undefined throws outside the try block
InstallBinary ==
  /\ ipc = "idle"
  /\ ires = NotReturned
  /\ host.name \in Names
  /\ IF Lookup(host.name) = "undefined"
       THEN /\ ires' = InstallResult(FALSE, FALSE, "Unknown binary")
            /\ ipc' = "done"
            /\ UNCHANGED <<dirs, pathMisconfigurationWarned, warnings,
                           resolver, resolved>>
       ELSE /\ ResolvesDirs
            /\ IF Lookup(host.name) = "inherited"
                 THEN ires' = Rejected /\ ipc' = "done"
                 ELSE ires' = ires /\ ipc' = "check"
  /\ UNCHANGED <<host, artifact, fetched, installedBins, NotInstalling>>

\* the call ends with result r
Ends(r) ==
  /\ ires' = r
  /\ ipc' = "done"

\* the try block is left with result r, its finally block still to run
Leaves_Try(r) ==
  /\ ires' = r
  /\ ipc' = "cleanup"

\* if (!options.force && checkPaths.some(existsSync)) return skipped
IB_Check ==
  /\ ipc = "check"
  /\ IF /\ ~host.force
        /\ host.present
        /\ getExpectedPaths(host.name, host.os)
       THEN Ends(InstallResult(FALSE, TRUE, ""))
       ELSE ipc' = "url" /\ ires' = ires
  /\ UNCHANGED <<host, artifact, fetched, installedBins, paths, NotInstalling>>

\* config.buildUrl(...): with a URL, or for tunnel without one, a
\* temporary directory is made; otherwise the binary is skipped
IB_Url ==
  /\ ipc = "url"
  /\ IF buildUrl(host.name, host.os, host.rawArch, host.source)
       THEN /\ dirs' = mkdirSync(dirs, TempPath)
            /\ ipc' = "download"
            /\ ires' = ires
       ELSE IF host.name = "tunnel"
         THEN /\ dirs' = mkdirSync(dirs, TempPath)
              /\ ipc' = "build"
              /\ ires' = ires
         ELSE /\ Ends(InstallResult(FALSE, TRUE, ""))
              /\ dirs' = dirs
  /\ UNCHANGED <<host, artifact, fetched, installedBins, env,
                 pathMisconfigurationWarned, warnings, resolver, resolved>>
  /\ UNCHANGED <<alive, ignoresTerm, pgid, environ, probe, spawned, pidFile,
                 pc, result, frame, waiting>>

\* tunnel without a URL: config.install builds from source, or finds
\* nothing to do, or throws, which no catch block takes
IB_Build ==
  /\ ipc = "build"
  /\ \/ /\ installedBins' = installedBins \cup {host.name}
        /\ Leaves_Try(InstallResult(TRUE, FALSE, ""))
     \/ /\ installedBins' = installedBins
        /\ Leaves_Try(InstallResult(FALSE, FALSE, ""))
     \/ /\ installedBins' = installedBins
        /\ Leaves_Try(Rejected)
  /\ UNCHANGED <<host, artifact, fetched, paths, NotInstalling>>

\* await downloadFile(url, downloadPath): a response that is not ok throws
IB_Download ==
  /\ ipc = "download"
  /\ IF host.served = "fail"
       THEN /\ Leaves_Try(InstallResult(FALSE, FALSE, "Failed to download"))
            /\ UNCHANGED <<artifact, fetched>>
       ELSE /\ artifact' = host.served
            /\ fetched' = fetched + 1
            /\ ipc' = "verify"
            /\ ires' = ires
  /\ UNCHANGED <<host, installedBins, paths, NotInstalling>>

\* if (!verifyChecksum(name, version, platformId, downloadPath)) return
IB_Verify ==
  /\ ipc = "verify"
  /\ IF verifyChecksum(host.checksum, artifact)
       THEN ipc' = "install" /\ ires' = ires
       ELSE Leaves_Try(InstallResult(FALSE, FALSE,
                                     "Checksum verification failed"))
  /\ UNCHANGED <<host, artifact, fetched, installedBins, paths, NotInstalling>>

\* await config.install(...): it puts the binary in place, or throws
IB_Install ==
  /\ ipc = "install"
  /\ \/ /\ installedBins' = installedBins \cup {host.name}
        /\ Leaves_Try(InstallResult(TRUE, FALSE, ""))
     \/ /\ installedBins' = installedBins
        /\ Leaves_Try(InstallResult(FALSE, FALSE, "install failed"))
  /\ UNCHANGED <<host, artifact, fetched, paths, NotInstalling>>

\* finally { temp.cleanup() }
IB_Cleanup ==
  /\ ipc = "cleanup"
  /\ dirs' = rmSync(dirs, TempPath)
  /\ artifact' = "none"
  /\ ipc' = "done"
  /\ UNCHANGED <<host, ires, fetched, installedBins, env,
                 pathMisconfigurationWarned, warnings, resolver, resolved>>
  /\ UNCHANGED <<alive, ignoresTerm, pgid, environ, probe, spawned, pidFile,
                 pc, result, frame, waiting>>

\* ------------------------------------------------------- specifications
\* PID file contents a run can find: none, unparsable text, "1", or the PID
\* of a daemon of an earlier run, which may be alive or gone
InitPidFiles ==
  {NoFile, Junk, PidContent(InitPid)} \cup {PidContent(p) : p \in PriorPids}

\* no call is running
InitCalls ==
  /\ pc = [c \in Callers |-> "idle"]
  /\ op = [c \in Callers |-> "none"]
  /\ opts = [c \in Callers |-> NoOpts]
  /\ proc = [c \in Callers |-> 0]
  /\ uptime = [c \in Callers |-> 0]
  /\ lifetime = [c \in Callers |-> 0 - 1]
  /\ timer = [c \in Callers |-> 0]
  /\ kpid = [c \in Callers |-> 0]
  /\ sent = [c \in Callers |-> <<>>]
  /\ nspawn = [c \in Callers |-> 0]
  /\ oldPid = [c \in Callers |-> 0]
  /\ todo = [c \in Callers |-> {}]
  /\ victims = [c \in Callers |-> <<>>]
  /\ result = [c \in Callers |-> NoResult]

\* an environment with none of the variables set
NoEnv ==
  [SANDBOX_DIR |-> Unset, EXECUTION_DIR |-> Unset, ASD_WORKSPACE_DIR |-> Unset,
   WORKSPACE_DIR |-> Unset, ASD_BIN_DIR |-> Unset, ASD_BIN_LOCATION |-> "",
   ASD_HOME |-> Unset, ASD_DIR |-> Unset]

\* the directories of a machine before the project is unpacked
BareDisk == {<<"/">>, <<"/", "proj">>, cwd, <<"/", "app">>}

\* no installBinary call is made
NoInstall ==
  /\ host = [name |-> "", force |-> FALSE, os |-> "linux",
             rawArch |-> "x86_64", source |-> FALSE, present |-> FALSE,
             checksum |-> "absent", served |-> "fail"]
  /\ ipc = "idle"
  /\ ires = NotReturned
  /\ artifact = "none"
  /\ fetched = 0
  /\ installedBins = {}

\* no _waitReadiness call is made
NoWait ==
  /\ readiness = [http |-> 0, port |-> 0, log |-> FALSE, custom |-> FALSE]
  /\ tasks = <<>>
  /\ wpc = "idle"
  /\ wres = "none"

\* no resolver is called
NoPaths ==
  /\ env = NoEnv
  /\ dirs = BareDisk
  /\ pathMisconfigurationWarned = FALSE
  /\ warnings = 0
  /\ resolver = "none"
  /\ resolved = <<>>

\* no readiness primitive is called
NoProbe ==
  /\ now = 0
  /\ endpoint = [kind |-> "refuse", code |-> 0]
  /\ pre = <<>>
  /\ post = <<>>
  /\ fn = "none"
  /\ ppc = "idle"
  /\ popts = [timeoutMs |-> 0, intervalMs |-> 0]
  /\ t0 = 0
  /\ deadline = 0
  /\ offset = 0
  /\ wake = 0
  /\ ret = "none"

\* a machine with init, perhaps a daemon of an earlier run, every process
\* the leader of its own group (as the children are: detached), no leases
Init ==
  /\ \E s \in SUBSET PriorPids :
       /\ alive = {InitPid} \cup s
       /\ ignoresTerm \in SUBSET s
  /\ pgid = [p \in Pids |-> p]
  /\ environ = [p \in Pids |-> {}]
  /\ spawned = {}
  /\ pidFile \in InitPidFiles
  /\ InitCalls
  /\ NoProbe
  /\ NoPaths
  /\ NoWait
  /\ NoInstall

\* a caller of the overlapping specification makes one call
Once(c) == pc[c] = "idle" => result[c] = NoResult

\* overlapping calls, one per caller, interleaved at every await
Next ==
  \/ \E c \in Callers : Once(c) /\ StartDaemon(c)
  \/ \E c \in Callers : SD_PathExists(c)
  \/ \E c \in Callers : SD_ReadPid(c)
  \/ \E c \in Callers : SD_RmStale(c)
  \/ \E c \in Callers : SD_Spawn(c)
  \/ \E c \in Callers : SD_WritePid(c)
  \/ \E c \in Callers : SD_Health(c)
  \/ \E c \in Callers : SD_RmFailed(c)
  \/ \E c \in Callers : SD_Ready(c)
  \/ \E c \in Callers : Once(c) /\ StopByPidFile(c, {KILL_GENTLE_MS_DEFAULT})
  \/ \E c \in Callers : ST_Read(c)
  \/ \E c \in Callers : K_Term(c)
  \/ \E c \in Callers : K_Kill(c)
  \/ \E c \in Callers : ST_Rm(c)
  \/ \E p \in Pids : Exit(p)
  \/ Tick

Spec == Init /\ [][Next]_vars

\* the client of the sequential specification
Client == 1

\* calls made one after the other by one client, any number of them
NextSeq ==
  \/ StartDaemon(Client)
  \/ SD_PathExists(Client)
  \/ SD_ReadPid(Client)
  \/ SD_RmStale(Client)
  \/ SD_Spawn(Client)
  \/ SD_WritePid(Client)
  \/ SD_Health(Client)
  \/ SD_RmFailed(Client)
  \/ SD_Ready(Client)
  \/ StopByPidFile(Client, GentleChoices)
  \/ ST_Read(Client)
  \/ K_Term(Client)
  \/ K_Kill(Client)
  \/ ST_Rm(Client)
  \/ KillTree(Client)
  \/ KT_Return(Client)
  \/ \E p \in Pids : Exit(p)
  \/ Tick

SpecSeq == Init /\ [][NextSeq]_vars

\* process groups of a machine: init in its own, every other process in
\* its own or in the group of a process started before it
ReapGroups ==
  {g \in [Pids -> Pids] :
     /\ \A p \in Pids \ (Listed \ {InitPid}) : g[p] = p
     /\ \A p \in Listed \ {InitPid} : g[p] # InitPid /\ g[p] <= p}

\* a machine of live processes in any of these groups and environments,
\* all of them honouring SIGTERM or all but init ignoring it
InitReap ==
  /\ alive = Listed
  /\ ignoresTerm \in {{}, Listed \ {InitPid}}
  /\ pgid \in ReapGroups
  /\ environ \in [Pids -> Environs]
  /\ \A p \in Pids \ (Listed \ {InitPid}) : environ[p] = {"PATH=/bin"}
  /\ spawned = {}
  /\ pidFile = NoFile
  /\ InitCalls
  /\ NoProbe
  /\ NoPaths
  /\ NoWait
  /\ NoInstall

\* one reapByEnv call while processes exit on their own
NextReap ==
  \/ Once(Client) /\ ReapByEnv(Client)
  \/ RP_Readdir(Client)
  \/ RP_Visit(Client)
  \/ K_Term(Client)
  \/ K_Kill(Client)
  \/ RP_Push(Client)
  \/ RP_Return(Client)
  \/ \E p \in Pids : Exit(p)
  \/ Tick

SpecReap == InitReap /\ [][NextReap]_vars

\* one call of a readiness primitive, on any endpoint and any log file
InitProbe ==
  /\ alive = {InitPid}
  /\ ignoresTerm = {}
  /\ pgid = [p \in Pids |-> p]
  /\ environ = [p \in Pids |-> {}]
  /\ spawned = {}
  /\ pidFile = NoFile
  /\ InitCalls
  /\ now = 0
  /\ endpoint \in Endpoints
  /\ pre \in Texts(MaxPre)
  /\ post = <<>>
  /\ fn = "none"
  /\ ppc = "idle"
  /\ popts = [timeoutMs |-> 0, intervalMs |-> 0]
  /\ t0 = 0
  /\ deadline = 0
  /\ offset = 0
  /\ wake = 0
  /\ ret = "none"
  /\ NoPaths
  /\ NoWait
  /\ NoInstall

NextProbe ==
  \/ WaitForHTTP
  \/ WaitForPort
  \/ WaitForLogPattern
  \/ P_While
  \/ H_Fetch
  \/ H_Settle
  \/ T_Connect
  \/ T_Settle
  \/ T_Destroy
  \/ L_Read
  \/ P_Wake
  \/ EndpointChanges
  \/ AppendLog
  \/ TickProbe

SpecProbe == InitProbe /\ [][NextProbe]_vars

\* values a directory variable of the environment is given
DirValues == {Unset, Blank, Relative, Absolute}

\* project trees: no .asd above cwd, a .asd with modules in the project
\* (submodule), or modules in the project root itself (standalone)
Trees ==
  {BareDisk,
   BareDisk \cup {<<"/", "proj", ".asd">>, <<"/", "proj", ".asd", "modules">>},
   BareDisk \cup {<<"/", "proj", ".asd">>, <<"/", "proj", "modules">>}}

\* a process in any environment, in any of the project trees
InitPaths ==
  /\ alive = {InitPid}
  /\ ignoresTerm = {}
  /\ pgid = [p \in Pids |-> p]
  /\ environ = [p \in Pids |-> {}]
  /\ spawned = {}
  /\ pidFile = NoFile
  /\ InitCalls
  /\ NoProbe
  /\ env \in [SANDBOX_DIR : DirValues \cup {StaleAsd},
              EXECUTION_DIR : {Unset, Relative},
              ASD_WORKSPACE_DIR : DirValues \cup {Doubled, DoubledCI},
              WORKSPACE_DIR : {Unset, Absolute},
              ASD_BIN_DIR : DirValues,
              ASD_BIN_LOCATION : {"", "workspace", "global"},
              ASD_HOME : {Unset},
              ASD_DIR : {Unset, <<"/", "app">>}]
  /\ dirs \in Trees
  /\ pathMisconfigurationWarned = FALSE
  /\ warnings = 0
  /\ resolver = "none"
  /\ resolved = <<>>
  /\ NoWait
  /\ NoInstall

\* resolver calls, any number, in any order
NextPaths ==
  \/ ResolveWorkspaceDir
  \/ ResolveBinDir
  \/ ResolveLogPath
  \/ ResolveWorkspaceDirForLogs

SpecPaths == InitPaths /\ [][NextPaths]_vars

\* one _waitReadiness call on any declaration of at most MaxUrls URLs and
\* MaxPorts ports
InitReady ==
  /\ alive = {InitPid}
  /\ ignoresTerm = {}
  /\ pgid = [p \in Pids |-> p]
  /\ environ = [p \in Pids |-> {}]
  /\ spawned = {}
  /\ pidFile = NoFile
  /\ InitCalls
  /\ NoProbe
  /\ NoPaths
  /\ readiness \in [http : 0..MaxUrls, port : 0..MaxPorts, log : BOOLEAN,
                    custom : BOOLEAN]
  /\ tasks = <<>>
  /\ wpc = "idle"
  /\ wres = "none"
  /\ NoInstall

NextReady ==
  \/ WaitReadiness
  \/ TaskSettles
  \/ WR_Return

SpecReady == InitReady /\ [][NextReady]_vars

\* one installBinary call, of any name, on any platform, with any registered
\* checksum and any file served
InitInstall ==
  /\ alive = {InitPid}
  /\ ignoresTerm = {}
  /\ pgid = [p \in Pids |-> p]
  /\ environ = [p \in Pids |-> {}]
  /\ spawned = {}
  /\ pidFile = NoFile
  /\ InitCalls
  /\ NoProbe
  /\ NoPaths
  /\ NoWait
  /\ host \in [name : Names, force : BOOLEAN, os : OSes, rawArch : RawArchs,
               source : BOOLEAN, present : BOOLEAN, checksum : Checksums,
               served : Served]
  /\ ipc = "idle"
  /\ ires = NotReturned
  /\ artifact = "none"
  /\ fetched = 0
  /\ installedBins = {}

NextInstall ==
  \/ InstallBinary
  \/ IB_Check
  \/ IB_Url
  \/ IB_Build
  \/ IB_Download
  \/ IB_Verify
  \/ IB_Install
  \/ IB_Cleanup

SpecInstall == InitInstall /\ [][NextInstall]_vars

\* ================================================================ claims

\* C1: over any interleaving of startDaemon calls on the pidFile, at most one
\* child spawned for it is alive at any time.
C1_AtMostOneLiveChild == Cardinality(spawned \cap alive) <= 1

\* the step by which caller c leaves position l
Leaves(c, l) == pc[c] = l /\ pc'[c] # l

\* the step by which the call of caller c returns
Returns(c) == pc[c] # "idle" /\ pc'[c] = "idle"

\* C2, as stated: a startDaemon that finds a live PID recorded returns
\* already-running with that PID, spawns nothing and leaves the PID file as it
\* is; one that finds a PID that is not alive removes the file and spawns a
\* new child.
C2_ReclaimAsStated ==
  [][\A c \in Callers :
       /\ Leaves(c, "sd_read") /\ pidFile.exists /\ pidFile.finite =>
            IF pidFile.pid \in alive
              THEN /\ Returns(c)
                   /\ result'[c].status = "already-running"
                   /\ result'[c].pid = pidFile.pid
                   /\ spawned' = spawned /\ alive' = alive
                   /\ pidFile' = pidFile
              ELSE pc'[c] = "sd_rm"
       /\ Leaves(c, "sd_rm") => ~pidFile'.exists /\ pc'[c] = "sd_spawn"
       /\ Leaves(c, "sd_spawn") /\ oldPid[c] # 0 =>
            /\ proc'[c] \in (alive' \ alive) \cap (spawned' \ spawned)
            /\ ~Returns(c)
  ]_vars

\* C2, amended: a startDaemon that finds recorded a PID greater than 1 of a
\* live process returns already-running with that PID, spawns nothing and
\* leaves the PID file as it is; one that finds anything else in the file
\* removes it, and then spawns a new child if the binary resolves, and spawns
\* nothing and returns if it does not.
C2_Reclaim ==
  [][\A c \in Callers :
       /\ Leaves(c, "sd_read") /\ pidFile.exists =>
            IF pidFile.finite /\ pidFile.pid > 1 /\ pidFile.pid \in alive
              THEN /\ Returns(c)
                   /\ result'[c].status = "already-running"
                   /\ result'[c].pid = pidFile.pid
                   /\ spawned' = spawned /\ alive' = alive
                   /\ pidFile' = pidFile
              ELSE pc'[c] = "sd_rm"
       /\ Leaves(c, "sd_rm") => ~pidFile'.exists /\ pc'[c] = "sd_spawn"
       /\ Leaves(c, "sd_spawn") /\ oldPid[c] # 0 =>
            \/ /\ proc'[c] \in (alive' \ alive) \cap (spawned' \ spawned)
               /\ ~Returns(c)
            \/ /\ spawned' = spawned /\ alive' = alive
               /\ Returns(c)
  ]_vars

\* one call was answered already-running for a daemon that exited since, and
\* another has removed the file naming it and spawned a new child
C2_Witness ==
  \E c, d \in Callers :
    /\ result[c].status = "already-running"
    /\ result[c].pid \notin alive
    /\ pc[d] = "sd_write"
    /\ proc[d] \in alive
    /\ ~pidFile.exists

\* C3: when readiness has timed out and the spawned process has exited, the
\* call does not return started: started is returned only for a process that
\* is alive when the call returns.
C3_StartedOnlyAlive ==
  [][\A c \in Callers :
       pc[c] = "sd_ready" /\ Returns(c) /\ ~result'[c].ready
       /\ result'[c].status = "started"
       => proc[c] \in alive'
  ]_vars

\* C4: whenever the readiness probes time out, the spawned process lived less
\* than minUptimeMs and the policy is on-failure, startDaemon retries with
\* policy never; stated for budgets longer than minUptimeMs.
C4_RetriesWhenDiedEarly ==
  [][\A c \in Callers :
       /\ Leaves(c, "sd_ready")
       /\ ~(Returns(c) /\ result'[c].ready)
       /\ lifetime[c] >= 0 /\ lifetime[c] < opts[c].minUptimeMs
       /\ opts[c].restartPolicy = "on-failure"
       /\ opts[c].budget > opts[c].minUptimeMs
       => /\ pc'[c] = "sd_exists"
          /\ opts'[c].restartPolicy = "never"
  ]_vars

\* the signals of a log, without when and whether they arrived
Sigs(log) ==
  [i \in 1..Len(log) |-> [target |-> log[i].target, sig |-> log[i].sig]]

\* C7: killProcessTree with killGroup sends SIGTERM to -pid, SIGTERM to pid,
\* and, no sooner than gentleMs later, SIGKILL to -pid, SIGKILL to pid;
\* without killGroup it sends SIGTERM and then SIGKILL to pid only, never to
\* a process group.
C7_SignalOrder ==
  \A c \in Callers :
    LET pid == kpid[c]
        term == IF opts[c].killGroup
                  THEN <<[target |-> 0 - pid, sig |-> "SIGTERM"],
                         [target |-> pid, sig |-> "SIGTERM"]>>
                  ELSE <<[target |-> pid, sig |-> "SIGTERM"]>>
        kill == IF opts[c].killGroup
                  THEN <<[target |-> 0 - pid, sig |-> "SIGKILL"],
                         [target |-> pid, sig |-> "SIGKILL"]>>
                  ELSE <<[target |-> pid, sig |-> "SIGKILL"]>>
    IN /\ pc[c] = "k_term" => sent[c] = <<>>
       /\ pc[c] = "k_kill" => Sigs(sent[c]) = term
       /\ pc[c] = "st_rm" => Sigs(sent[c]) = term \o kill
       /\ \A i \in 1..Len(sent[c]) :
            sent[c][i].sig = "SIGKILL" => sent[c][i].after >= opts[c].gentleMs

\* a killProcessTree with killGroup has sent its four signals, and one
\* without has sent its two
C7_Witness ==
  \E c \in Callers :
    /\ pc[c] = "st_rm"
    /\ opts[c].gentleMs = KILL_GENTLE_MS_DEFAULT
    /\ Len(sent[c]) = (IF opts[c].killGroup THEN 4 ELSE 2)
    /\ kpid[c] \in PriorPids

\* C8, as stated: stopByPidFile on a PID file naming a daemon, though the
\* daemon ignore SIGTERM, sends SIGKILL no sooner than gentleMs after
\* SIGTERM and removes the PID file before it returns; the start that
\* follows spawns a new child and returns started.
C8_StopThenStartAsStated ==
  [][/\ pc[Client] = "st_rm" /\ Returns(Client) =>
          /\ ~pidFile'.exists
          /\ kpid[Client] \notin alive'
          /\ \E i \in 1..Len(sent[Client]) :
               /\ sent[Client][i].sig = "SIGKILL"
               /\ sent[Client][i].target = kpid[Client]
               /\ sent[Client][i].after >= opts[Client].gentleMs
     /\ result[Client].status = "stopped" /\ op[Client] = "start"
        /\ Returns(Client) =>
          /\ result'[Client].status = "started"
          /\ result'[Client].pid \in spawned' \ {result[Client].pid}
  ]_vars

\* C8, amended: as stated up to the return of stopByPidFile; the start that
\* follows finds no PID file, never returns already-running, and returns
\* started with a new child unless the binary does not resolve or the child
\* has exited by the startup check.
C8_StopThenStart ==
  [][/\ pc[Client] = "st_rm" /\ Returns(Client) =>
          /\ ~pidFile'.exists
          /\ kpid[Client] \notin alive'
          /\ \E i \in 1..Len(sent[Client]) :
               /\ sent[Client][i].sig = "SIGKILL"
               /\ sent[Client][i].target = kpid[Client]
               /\ sent[Client][i].after >= opts[Client].gentleMs
     /\ result[Client].status = "stopped" /\ op[Client] = "start" =>
          /\ Leaves(Client, "sd_exists") /\ opts[Client].depth = 0 =>
               pc'[Client] = "sd_spawn"
          /\ Returns(Client) =>
               /\ result'[Client].status # "already-running"
               /\ \/ /\ result'[Client].status = "started"
                     /\ result'[Client].pid \in spawned' \ {result[Client].pid}
                  \/ pc[Client] = "sd_spawn" /\ spawned' = spawned
                  \/ pc[Client] = "sd_rmfailed" /\ proc[Client] \notin alive
  ]_vars

\* a stop has sent SIGTERM to a live daemon that ignored it and, gentleMs
\* later, the SIGKILL that ended it; the PID file is about to be removed
C8_Witness ==
  /\ pc[Client] = "st_rm"
  /\ pidFile = PidContent(kpid[Client])
  /\ kpid[Client] \notin alive
  /\ \E i, j \in 1..Len(sent[Client]) :
       /\ i < j
       /\ sent[Client][i].sig = "SIGTERM" /\ kpid[Client] \in sent[Client][i].to
       /\ sent[Client][i].target = kpid[Client]
       /\ sent[Client][j].sig = "SIGKILL" /\ kpid[Client] \in sent[Client][j].to
       /\ sent[Client][j].target = kpid[Client]

\* C10: a startDaemon whose binary does not resolve spawns nothing and
\* returns a result of status failed.
C10_MissingBinaryFails ==
  [][\A c \in Callers :
       Leaves(c, "sd_spawn") /\ spawned' = spawned
       => Returns(c) /\ result'[c].status = "failed"
  ]_vars

\* C9: reapByEnv delivers no signal to a process whose PID is in
\* excludePids, neither directly nor through the group of a victim.
C9_ExcludedNeverSignalled ==
  \A c \in Callers :
    op[c] = "reap" =>
      \A i \in 1..Len(sent[c]) : sent[c][i].to \cap opts[c].excludePids = {}

\* C5: waitForLogPattern returns true only if the pattern matches text
\* written to the log file after the probe started.
C5_OnlyNewText ==
  fn = "log" /\ ret = "true" => Test(post)

\* C6: whatever the endpoint does, a readiness primitive has returned once
\* its timeout and one poll step have passed since it was called.
C6_BoundedByDeadline ==
  ppc \notin {"idle", "done"} =>
    now <= (IF fn = "http" THEN t0 + popts.timeoutMs ELSE deadline)
           + popts.intervalMs

\* C11: a startDaemon whose child is not alive after the startup interval
\* removes the PID file and returns failed with the child's pid, and no PID
\* file naming that child is there while the caller holds the result.
C11_FailedLeavesNoPidFile ==
  /\ [][\A c \in Callers :
          /\ Leaves(c, "sd_health") /\ proc[c] \notin alive =>
               pc'[c] = "sd_rmfailed"
          /\ Leaves(c, "sd_rmfailed") =>
               /\ Returns(c)
               /\ result'[c] = StartResult("failed", proc[c], FALSE, FALSE)
               /\ ~pidFile'.exists
     ]_vars
  /\ [](\A c \in Callers :
          result[c].status = "failed" =>
            /\ result[c].pid \notin alive
            /\ pidFile # PidContent(result[c].pid))

\* a start has returned failed for a child it spawned, and the PID file it
\* wrote is gone
C11_Witness ==
  \E c \in Callers :
    /\ pc[c] = "idle"
    /\ result[c].status = "failed"
    /\ result[c].pid \in spawned
    /\ ~pidFile.exists

\* C12: one startDaemon call spawns at most two children; it retries at
\* most once, and the retried attempt runs with restartPolicy never and
\* does not retry.
C12_AtMostOneRetry ==
  /\ [](\A c \in Callers :
          /\ nspawn[c] <= 2
          /\ opts[c].depth <= 1
          /\ opts[c].depth = 1 => opts[c].restartPolicy = "never")
  /\ [][\A c \in Callers :
          pc[c] = "sd_ready" /\ pc'[c] = "sd_exists" =>
            /\ opts[c].depth = 0
            /\ opts'[c] = [opts[c] EXCEPT !.restartPolicy = "never",
                                          !.depth = 1]
     ]_vars

\* a retried attempt has spawned the second child of its call, and its
\* readiness too fails with the child dead before minUptimeMs
C12_Witness ==
  \E c \in Callers :
    /\ pc[c] = "sd_ready"
    /\ opts[c].depth = 1
    /\ nspawn[c] = 2
    /\ timer[c] = 0
    /\ diedEarly(c)
    /\ Children \ spawned # {}

\* C13: whenever startDaemon returns started, the PID file exists and holds
\* exactly the pid returned.
C13_StartedNamesPidFile ==
  [][\A c \in Callers :
       Returns(c) /\ result'[c].status = "started" =>
         pidFile' = PidContent(result'[c].pid)
  ]_vars

\* C14: killProcessTree, and killTree and stopByPidFile built on it, go on
\* to their end whether or not a signal finds its target: after the first
\* phase comes the second, after the second what follows the kill, killTree
\* resolves and stopByPidFile returns stopped; neither raises.
C14_ToleratesGone ==
  [][\A c \in Callers :
       /\ Leaves(c, "k_term") => pc'[c] = "k_kill"
       /\ Leaves(c, "k_kill") => pc'[c] = AfterKill(c)
       /\ Returns(c) /\ op[c] \in {"stop", "kill"} /\ kpid[c] # 0 =>
            result'[c] = IF op[c] = "stop"
                           THEN StopResult("stopped", kpid[c], "")
                           ELSE Resolved
  ]_vars

\* a kill that found its target gone from the first signal on, and one that
\* lost it between two signals, both about to complete
C14_Witness ==
  /\ \E c \in Callers :
       /\ pc[c] \in {"st_rm", "kt_return"}
       /\ kpid[c] \in spawned \ alive
       /\ \/ \A i \in 1..Len(sent[c]) : sent[c][i].to = {}
          \/ \E i \in 1..Len(sent[c]) : \E j \in 1..Len(sent[c]) :
               i < j /\ sent[c][i].to # {} /\ sent[c][j].to = {}

\* C15: no step of a startDaemon call sends a signal or ends a process;
\* when readiness is not reached and the child is alive, the call returns
\* started with ready false, the child alive and the PID file as it was.
C15_NeverKillsChild ==
  [][\A c \in Callers :
       /\ op[c] = "start" /\ pc'[c] # pc[c] =>
            /\ sent' = sent
            /\ alive \subseteq alive'
       /\ (/\ Leaves(c, "sd_ready")
           /\ isAlive(proc[c])
           /\ ~(Returns(c) /\ result'[c].ready)) =>
            /\ Returns(c)
            /\ result'[c] = StartResult("started", proc[c], TRUE, FALSE)
            /\ proc[c] \in alive'
            /\ pidFile' = pidFile
  ]_vars

\* a call returned started, not ready, and its child runs on under its PID
\* file
C15_Witness ==
  \E c \in Callers :
    /\ pc[c] = "idle"
    /\ result[c].status = "started"
    /\ ~result[c].ready
    /\ result[c].pid \in alive
    /\ pidFile = PidContent(result[c].pid)

\* C16: waitForHTTP returns true exactly when a probe, made before the
\* deadline, receives a response of status 200, 401, 404 or 499; a probe
\* that receives 500 or 503 or fails is followed by a sleep and another
\* turn of the loop, and false is returned only once the deadline is over.
C16_HttpReadyIffOkStatus ==
  [][fn = "http" =>
       LET settles == ppc \in {"try", "pending"} /\ ppc' \notin {"try", "pending"}
           answer == endpoint.kind = "status"
       IN /\ (ret = "none" /\ ret' = "true") <=>
               settles /\ answer /\ endpoint.code \in {200, 401, 404, 499}
          /\ settles /\ ~(answer /\ endpoint.code \notin {500, 503}) =>
               ppc' = "sleep" /\ ret' = "none"
          /\ ppc = "loop" /\ ppc' = "try" => now - t0 < popts.timeoutMs
          /\ ret = "none" /\ ret' = "false" =>
               ppc = "loop" /\ now - t0 >= popts.timeoutMs
  ]_vars

\* a call that was answered 499 some time after it was made
C16_Witness ==
  /\ fn = "http"
  /\ ret = "true"
  /\ endpoint = [kind |-> "status", code |-> 499]
  /\ now > t0

Selected(c) ==
  {p \in Listed : p >= 2 /\ p \notin opts[c].excludePids /\ Lease \in environ[p]}

\* C18: reapByEnv signals only processes it selects, and the victims it
\* returns are the selected processes, those that were still running when
\* the loop came to them; a process with the key at another value, or with
\* the lease inside a longer entry, is neither signalled nor returned.
C18_ReapsExactlyLeased ==
  /\ [](\A c \in Callers : op[c] = "reap" =>
          \A i \in 1..Len(sent[c]) : sent[c][i].to \subseteq Selected(c))
  /\ [][\A c \in Callers : op[c] = "reap" /\ Returns(c) =>
          /\ {victims[c][i] : i \in 1..Len(victims[c])} \subseteq Selected(c)
          /\ Selected(c) \cap alive' = {}
          /\ result'[c] = ReapResult(victims[c])
     ]_vars

\* C19: the path a resolver returns is absolute, whatever the environment.
C19_ResolvedAbsolute ==
  resolver # "none" => isAbsolute(resolved)

\* C20: when resolveWorkspaceDir, resolveLogPath or resolveBinDir has
\* returned, the directory it resolved is on disk, whatever the environment.
C20_ResolvedExists ==
  /\ resolver \in {"resolveWorkspaceDir", "resolveBinDir"} =>
       existsSync(dirs, resolved)
  /\ resolver = "resolveLogPath" => existsSync(dirs, dirname(OnDisk(resolved)))

\* C21: a resolveWorkspaceDir call prints the warning if and only if the
\* path it resolves has a doubled .asd segment outside the CI layout and no
\* earlier call printed it; the warning is printed once at most.
C21_WarnsOnceOnDoubled ==
  /\ [][resolver' = "resolveWorkspaceDir" =>
          warnings' = warnings +
            (IF /\ warnings = 0
                /\ HasDoubledAsd(resolved')
                /\ ~isGitHubAsdRepo(resolved')
               THEN 1 ELSE 0)
     ]_vars
  /\ [](warnings <= 1)

\* the first of two values that is not blank, trimmed (<<>>: both blank)
FirstNonBlank(a, b) == IF trim(a) # <<>> THEN trim(a) ELSE trim(b)

\* C22: resolveWorkspaceDir returns the workspace of the sandbox if
\* SANDBOX_DIR or EXECUTION_DIR is non-blank, whatever else is set; otherwise
\* the directory ASD_WORKSPACE_DIR (or WORKSPACE_DIR) names if one is
\* non-blank, a relative one taken from the project root; and a directory
\* derived from the project's .asd or root only when none of the four is.
C22_Precedence ==
  [][resolver' = "resolveWorkspaceDir" =>
       LET sb == FirstNonBlank(env.SANDBOX_DIR, env.EXECUTION_DIR)
           ws == FirstNonBlank(env.ASD_WORKSPACE_DIR, env.WORKSPACE_DIR)
           root == resolveProjectRoot(dirs)
       IN IF sb # <<>> THEN resolved' = join(sb, <<".asd", "workspace">>)
          ELSE IF ws # <<>>
            THEN resolved' = (IF isAbsolute(ws) THEN ws ELSE join(root, ws))
            ELSE resolved' \in {join(root, <<".asd", "workspace">>),
                                join(root, <<"workspace">>),
                                join(resolveAsdDir(env, dirs), <<"workspace">>)}
  ]_vars

\* C30: with SANDBOX_DIR, EXECUTION_DIR or ASD_WORKSPACE_DIR non-blank,
\* resolveWorkspaceDirForLogs returns the directory resolveWorkspaceDir
\* returns in the same environment.
C30_LogsWorkspaceAgrees ==
  [][/\ resolver' = "resolveWorkspaceDirForLogs"
     /\ \/ trim(env.SANDBOX_DIR) # <<>>
        \/ trim(env.EXECUTION_DIR) # <<>>
        \/ trim(env.ASD_WORKSPACE_DIR) # <<>>
     => resolved' = WorkspaceDir(env, dirs)
  ]_vars

\* C24: once a stopByPidFile call and a startDaemon call on the PID file,
\* interleaved in any way, have both returned, the PID file names every live
\* child startDaemon spawned for it.
C24_StopKeepsNewerPidFile ==
  \A c \in Callers : \A d \in Callers :
    (/\ c # d
     /\ pc[c] = "idle" /\ result[c].status \in {"stopped", "not-stopped"}
     /\ pc[d] = "idle"
     /\ result[d].status \in {"started", "failed", "already-running", "threw"})
    => \A p \in spawned \cap alive : pidFile = PidContent(p)

\* C25: no signal of a supervisor operation has the target 0, 1 or -1, and
\* none reaches init.
C25_NeverSignalsInitOrAll ==
  \A c \in Callers : \A i \in 1..Len(sent[c]) :
    /\ sent[c][i].target \notin {0, 1, 0 - 1}
    /\ InitPid \notin sent[c][i].to

\* a task of ts resolved to a value that counts as failure
SomeFailed(ts) ==
  \E i \in 1..Len(ts) : ts[i].value \in {"false", "undefined"}

\* C26: _waitReadiness returns true exactly when every declared probe has
\* succeeded, and at once when none is declared; it returns false exactly
\* when all have resolved and one has failed, a single one being enough.
C26_ReadinessIsConjunction ==
  /\ [](wres = "true" <=>
          /\ wpc = "done"
          /\ \A i \in 1..Len(tasks) : Truthy(tasks[i].value))
  /\ [](wres = "false" <=>
          /\ wpc = "done"
          /\ \A i \in 1..Len(tasks) : tasks[i].value \notin {"pending", "rejected"}
          /\ SomeFailed(tasks))
  /\ [][wpc = "idle" /\ wpc' # "idle" =>
          /\ Len(tasks') = readiness.http + readiness.port
                           + (IF readiness.log THEN 1 ELSE 0)
                           + (IF readiness.custom THEN 1 ELSE 0)
          /\ (Len(tasks') = 0 <=> wres' = "true")
     ]_vars

\* a call of three probes or more returned false with one of them failed
\* and the others succeeded
C26_Witness ==
  /\ wres = "false"
  /\ Len(tasks) >= 3
  /\ \E i \in 1..Len(tasks) :
       /\ tasks[i].value = "false"
       /\ \A j \in 1..Len(tasks) : j # i => Truthy(tasks[j].value)

\* the PID file is absent, or its content does not parse to an integer
\* greater than 1
Unusable(f) == ~f.exists \/ ~f.finite \/ f.pid <= 1

\* C27: when the PID file is absent or does not hold an integer greater than
\* 1, stopByPidFile returns from its read without having sent a signal and
\* without touching the PID file or any process, with stopped false and the
\* reason no-pidfile for an absent file, an error message otherwise.
C27_UnusablePidFileIsLeft ==
  [][\A c \in Callers :
       pc[c] = "st_read" /\ pc'[c] # "st_read" /\ Unusable(pidFile) =>
         /\ pc'[c] = "idle"
         /\ sent[c] = <<>>
         /\ pidFile' = pidFile
         /\ alive' = alive
         /\ result'[c].status = "not-stopped"
         /\ result'[c].reason =
              (IF pidFile.exists THEN "invalid pid" ELSE "no-pidfile")
    ]_vars

\* stopByPidFile returned the error of a PID file that is still there
C27_Witness ==
  /\ pc[Client] = "idle"
  /\ result[Client] = StopResult("not-stopped", 0, "invalid pid")
  /\ pidFile.exists
  /\ Unusable(pidFile)

\* C28: a poll of waitForLogPattern that finds the pattern matched by text
\* appended since the probe started, whether it came in one append or in
\* several read by different polls, returns true.
C28_FindsAppendedMatch ==
  [][fn = "log" /\ ppc = "try" /\ ppc' # "try" /\ Test(post) =>
       ret' = "true"]_vars

\* the binary has no build for the platform
NoBuild(h) ==
  /\ h.name \in Registry \ {"tunnel"}
  /\ ~buildUrl(h.name, h.os, h.rawArch, h.source)

\* C23: installBinary of a name that is not in the registry, or of a binary
\* other than tunnel that has no build for the platform, downloads nothing,
\* installs nothing and returns installed false, with an error for the
\* unknown name and with skipped true for the missing build.
C23_UnknownOrNoBuild ==
  ipc = "done" /\ (host.name \notin Registry \/ NoBuild(host)) =>
    /\ fetched = 0
    /\ installedBins = {}
    /\ ires.kind = "returned"
    /\ ~ires.installed
    /\ host.name \notin Registry => ires.error # ""
    /\ NoBuild(host) => ires.skipped

\* a non-empty checksum is registered and the file served has another hash
Mismatch(h) ==
  /\ h.checksum \notin {"absent", ""}
  /\ h.served # "fail"
  /\ toLowerCase(h.checksum) # h.served

\* C29: the install step runs on a downloaded file only if no checksum is
\* registered for it or its hash is the registered one; after a download
\* whose hash differs from a registered checksum nothing is installed, the
\* result is installed false with the error "Checksum verification failed",
\* and the temporary directory and the file in it are gone.
C29_InstallsOnlyVerified ==
  /\ [][ipc = "install" /\ ipc' # "install" =>
          /\ artifact # "none"
          /\ ~Mismatch(host)]_vars
  /\ [](fetched > 0 /\ Mismatch(host) => installedBins = {})
  /\ [](ipc = "done" /\ fetched > 0 /\ Mismatch(host) =>
          /\ ires = InstallResult(FALSE, FALSE, "Checksum verification failed")
          /\ ~existsSync(dirs, TempPath)
          /\ artifact = "none")

\* a download whose hash is not the registered one was refused and cleaned up
C29_Witness ==
  /\ ipc = "done"
  /\ fetched = 1
  /\ host.checksum = "h1"
  /\ host.served = "h2"
  /\ ires.error = "Checksum verification failed"
  /\ ~existsSync(dirs, TempPath)

====
